---- MODULE Spec2Model ----
(***************************************************************************)
(* State-machine model of the video download service of yt-backend/yt.py:  *)
(* POST / (download_video), GET /download/<filename> (serve_file),         *)
(* get_youtube_object and cleanup_old_files.                               *)
(*                                                                         *)
(* Strings are sequences of one-character strings, so strip(), lower(),    *)
(* startswith() and the "in" substring test are computed as Python         *)
(* computes them.  A timestamp inside a file name is the one multi-        *)
(* character element ToString yields; it holds digits only.                *)
(*                                                                         *)
(* A path is a sequence of components below the server's working          *)
(* directory; the file system maps each existing path to its metadata.     *)
(*                                                                         *)
(* The upscaler script a.py is modelled beside the service: its frame      *)
(* loop, its ffmpeg run and the removal of its temporary file.             *)
(***************************************************************************)
EXTENDS Integers, Sequences, FiniteSets, TLC

VARIABLES scope, now, ticks, posts, fs, rq, cleaned, served, upscaler

vars == <<scope, now, ticks, posts, fs, rq, cleaned, served, upscaler>>

(***************************************************************************)
(* Bounds of the model.                                                    *)
(***************************************************************************)
\* POST requests accepted in one behaviour
MaxPosts == 2
\* clock advances in one behaviour
MaxTicks == 2
\* frames (good or unreadable) of the upscaler's input
MaxFrames == 3
\* phrases concatenated into one exception message
MaxWords == 2
\* streams offered by one video
MaxStreams == 3
\* characters of a GET file name
MaxNameLen == 4

(***************************************************************************)
(* Program constants.                                                      *)
(***************************************************************************)
\* get_youtube_object(url, max_retries=3)
max_retries == 3
\* clean_filename(title, max_length=50)
max_length == 50
\* cleanup_old_files: max_age_hours * 3600 with max_age_hours = 1
max_age_seconds == 3600

\* DOWNLOAD_FOLDER = "downloads", a path of one component
DOWNLOAD_FOLDER == << <<"downloads">> >>

Threads == {"t1", "t2"}

(***************************************************************************)
(* String literals of the source.                                          *)
(***************************************************************************)
KwBot == <<"b", "o", "t">>
KwBlocked == <<"b", "l", "o", "c", "k", "e", "d">>
Kw403 == <<"4", "0", "3">>
KwForbidden == <<"f", "o", "r", "b", "i", "d", "d", "e", "n">>
Kw429 == <<"4", "2", "9">>
KwTooManyRequests == <<"t", "o", "o", " ", "m", "a", "n", "y", " ", "r", "e", "q", "u", "e", "s", "t", "s">>
KwPrivate == <<"p", "r", "i", "v", "a", "t", "e">>
KwUnavailable == <<"u", "n", "a", "v", "a", "i", "l", "a", "b", "l", "e">>
KwDeleted == <<"d", "e", "l", "e", "t", "e", "d">>
KwRemoved == <<"r", "e", "m", "o", "v", "e", "d">>
KwTimeout == <<"t", "i", "m", "e", "o", "u", "t">>
KwNetwork == <<"n", "e", "t", "w", "o", "r", "k">>
KwConnection == <<"c", "o", "n", "n", "e", "c", "t", "i", "o", "n">>
KwResolve == <<"r", "e", "s", "o", "l", "v", "e">>
KwAge == <<"a", "g", "e">>
KwRestricted == <<"r", "e", "s", "t", "r", "i", "c", "t", "e", "d">>
KwTooMany == <<"t", "o", "o", " ", "m", "a", "n", "y">>
KwRateLimit == <<"r", "a", "t", "e", " ", "l", "i", "m", "i", "t">>
PrefixWww == <<"h", "t", "t", "p", "s", ":", "/", "/", "w", "w", "w", ".", "y", "o", "u", "t", "u", "b", "e", ".", "c", "o", "m", "/", "w", "a", "t", "c", "h">>
PrefixShort == <<"h", "t", "t", "p", "s", ":", "/", "/", "y", "o", "u", "t", "u", ".", "b", "e", "/">>
PrefixMobile == <<"h", "t", "t", "p", "s", ":", "/", "/", "m", ".", "y", "o", "u", "t", "u", "b", "e", ".", "c", "o", "m", "/", "w", "a", "t", "c", "h">>
PrefixBare == <<"h", "t", "t", "p", "s", ":", "/", "/", "y", "o", "u", "t", "u", "b", "e", ".", "c", "o", "m", "/", "w", "a", "t", "c", "h">>
MsgNoAttrStrip == <<"'", "i", "n", "t", "'", " ", "o", "b", "j", "e", "c", "t", " ", "h", "a", "s", " ", "n", "o", " ", "a", "t", "t", "r", "i", "b", "u", "t", "e", " ", "'", "s", "t", "r", "i", "p", "'">>
MsgNoAttrGet == <<"'", "l", "i", "s", "t", "'", " ", "o", "b", "j", "e", "c", "t", " ", "h", "a", "s", " ", "n", "o", " ", "a", "t", "t", "r", "i", "b", "u", "t", "e", " ", "'", "g", "e", "t", "'">>
MsgNoFfmpeg == <<"[", "E", "r", "r", "n", "o", " ", "2", "]", " ", "N", "o", " ", "s", "u", "c", "h", " ", "f", "i", "l", "e", " ", "o", "r", " ", "d", "i", "r", "e", "c", "t", "o", "r", "y", ":", " ", "'", "f", "f", "m", "p", "e", "g", "'">>
PhBot == <<"S", "i", "g", "n", " ", "i", "n", " ", "t", "o", " ", "c", "o", "n", "f", "i", "r", "m", " ", "y", "o", "u", " ", "a", "r", "e", " ", "n", "o", "t", " ", "a", " ", "B", "o", "t">>
PhUnavailable == <<"v", "i", "d", "e", "o", " ", "i", "s", " ", "u", "n", "a", "v", "a", "i", "l", "a", "b", "l", "e">>
PhTimeout == <<"r", "e", "a", "d", " ", "t", "i", "m", "e", "o", "u", "t">>
PhConnection == <<"C", "o", "n", "n", "e", "c", "t", "i", "o", "n", " ", "r", "e", "s", "e", "t">>
PhAgeRestricted == <<"i", "s", " ", "a", "g", "e", " ", "r", "e", "s", "t", "r", "i", "c", "t", "e", "d">>
PhFailed == <<"f", "a", "i", "l", "e", "d">>
Ph429 == <<"H", "T", "T", "P", " ", "E", "r", "r", "o", "r", " ", "4", "2", "9", ":", " ", "T", "o", "o", " ", "M", "a", "n", "y", " ", "R", "e", "q", "u", "e", "s", "t", "s">>
UrlQuery == <<"?", "v", "=", "a">>
UrlHttp == <<"h", "t", "t", "p", ":", "/", "/", "w", "w", "w", ".", "y", "o", "u", "t", "u", "b", "e", ".", "c", "o", "m", "/", "w", "a", "t", "c", "h">>
UrlShorts == <<"h", "t", "t", "p", "s", ":", "/", "/", "w", "w", "w", ".", "y", "o", "u", "t", "u", "b", "e", ".", "c", "o", "m", "/", "s", "h", "o", "r", "t", "s", "/", "a">>
UrlShortNoSlash == <<"h", "t", "t", "p", "s", ":", "/", "/", "y", "o", "u", "t", "u", ".", "b", "e">>
UrlUpper == <<"H", "T", "T", "P", "S", ":", "/", "/", "Y", "O", "U", "T", "U", ".", "B", "E", "/", "a">>
Res720 == <<"7", "2", "0", "p">>
Res1080 == <<"1", "0", "8", "0", "p">>
Res1440 == <<"1", "4", "4", "0", "p">>
Res480 == <<"4", "8", "0", "p">>
Abr48 == <<"4", "8", "k", "b", "p", "s">>
Abr128 == <<"1", "2", "8", "k", "b", "p", "s">>
Abr70 == <<"7", "0", "k", "b", "p", "s">>
Abr160 == <<"1", "6", "0", "k", "b", "p", "s">>
UnknownVideo == <<"U", "n", "k", "n", "o", "w", "n", " ", "V", "i", "d", "e", "o">>
DefaultTitle == <<"v", "i", "d", "e", "o">>
TitleRaw == <<"M", "y", " ", "V", "i", "d", "e", "o", "!">>
TitlePunct == <<"?", "!">>
Mp4Suffix == <<".", "m", "p", "4">>
VideoTempPrefix == <<"v", "i", "d", "e", "o", "_", "t", "e", "m", "p", "_">>
AudioTempPrefix == <<"a", "u", "d", "i", "o", "_", "t", "e", "m", "p", "_">>

UpperCase == <<"A", "B", "C", "D", "E", "F", "G", "H", "I", "J", "K", "L", "M", "N", "O", "P", "Q", "R", "S", "T", "U", "V", "W", "X", "Y", "Z">>
LowerCase == <<"a", "b", "c", "d", "e", "f", "g", "h", "i", "j", "k", "l", "m", "n", "o", "p", "q", "r", "s", "t", "u", "v", "w", "x", "y", "z">>
DigitChars == <<"0", "1", "2", "3", "4", "5", "6", "7", "8", "9">>
Whitespace == {" ", "\t"}

(***************************************************************************)
(* Python string operations.                                               *)
(***************************************************************************)
Range(s) == {s[i] : i \in DOMAIN s}

\* str.lower() on one character
LowerChar(c) == IF \E i \in DOMAIN UpperCase : UpperCase[i] = c THEN LowerCase[CHOOSE i \in DOMAIN UpperCase : UpperCase[i] = c] ELSE c

\* str.lower()
Lower(s) == [i \in DOMAIN s |-> LowerChar(s[i])]

\* kw in s
Contains(s, kw) == \E i \in 1..(Len(s) - Len(kw) + 1) : SubSeq(s, i, i + Len(kw) - 1) = kw

\* s.startswith(p)
StartsWith(s, p) == Len(s) >= Len(p) /\ SubSeq(s, 1, Len(p)) = p

\* str.strip(): leading and trailing whitespace removed
Strip(s) ==
    LET keep == {i \in DOMAIN s : s[i] \notin Whitespace}
    IN  IF keep = {} THEN <<>>
        ELSE SubSeq(s, CHOOSE i \in keep : \A j \in keep : i <= j, CHOOSE i \in keep : \A j \in keep : i >= j)

\* c.isalnum() for the characters of the model
IsAlnum(c) == c \in Range(UpperCase) \cup Range(LowerCase) \cup Range(DigitChars)

\* "".join(c for c in s if keep(c))
RECURSIVE FilterTitle(_)
FilterTitle(s) ==
    IF s = <<>> THEN <<>>
    ELSE IF IsAlnum(Head(s)) \/ Head(s) \in {" ", "-", "_"} THEN <<Head(s)>> \o FilterTitle(Tail(s))
    ELSE FilterTitle(Tail(s))

\* clean_filename(title, max_length=50)
clean_filename(title) ==
    IF title = <<>> THEN DefaultTitle
    ELSE LET safe_title == Strip(FilterTitle(title))
         IN  IF safe_title = <<>> THEN DefaultTitle
             ELSE SubSeq(safe_title, 1, IF Len(safe_title) < max_length THEN Len(safe_title) ELSE max_length)

\* int("".join(filter(str.isdigit, s))), the key of StreamQuery.order_by
RECURSIVE DigitsValue(_, _)
DigitsValue(s, acc) ==
    IF s = <<>> THEN acc
    ELSE IF \E d \in DOMAIN DigitChars : DigitChars[d] = Head(s)
         THEN DigitsValue(Tail(s), 10 * acc + (CHOOSE d \in DOMAIN DigitChars : DigitChars[d] = Head(s)) - 1)
         ELSE DigitsValue(Tail(s), acc)

(***************************************************************************)
(* Responses of the endpoints: jsonify(...) with its status.  A field the  *)
(* JSON object does not carry is "none" (download_url: the empty name).    *)
(* exc is the message of the exception the outer handler caught, <<>> when *)
(* the response was not built by that handler.                             *)
(***************************************************************************)
Response(status, message) == [status |-> status, message |-> message, error_type |-> "none", download_url |-> <<>>, exc |-> <<>>]

ErrorTyped(status, message, error_type, error_msg) == [status |-> status, message |-> message, error_type |-> error_type, download_url |-> <<>>, exc |-> error_msg]

NoResponse == Response(0, "")

\* any(keyword in s for keyword in kws)
AnyIn(s, kws) == \E kw \in kws : Contains(s, kw)

\* download_video: except Exception as e (the classification by substring)
ClassifyError(error_msg) ==
    LET low == Lower(error_msg)
    IN  IF AnyIn(low, {KwBot, KwBlocked, Kw403, KwForbidden, Kw429, KwTooManyRequests})
        THEN ErrorTyped(429, "Access temporarily blocked by YouTube. Please try again in a few minutes.", "rate_limited", error_msg)
        ELSE IF AnyIn(low, {KwPrivate, KwUnavailable, KwDeleted, KwRemoved})
        THEN ErrorTyped(400, "This video is private, unavailable, or has been removed.", "video_unavailable", error_msg)
        ELSE IF Contains(low, KwTimeout)
        THEN ErrorTyped(408, "Request timed out. The video might be too large or processing is taking too long.", "timeout", error_msg)
        ELSE IF AnyIn(low, {KwNetwork, KwConnection, KwResolve})
        THEN ErrorTyped(503, "Network error occurred. Please check your connection and try again.", "network_error", error_msg)
        ELSE IF Contains(low, KwAge) /\ Contains(low, KwRestricted)
        THEN ErrorTyped(400, "This video is age-restricted and cannot be downloaded.", "age_restricted", error_msg)
        ELSE ErrorTyped(500, "An unexpected error occurred: ...", "unknown", error_msg)

(***************************************************************************)
(* Request bodies.  request.json is a JSON value: null, {}, a non-empty    *)
(* array, or a non-empty object.  A member of the object is absent, a      *)
(* string, or a value of another JSON type ("other": a number, null).      *)
(***************************************************************************)
Absent == [t |-> "absent", s |-> <<>>]
Other == [t |-> "other", s |-> <<>>]
Str(s) == [t |-> "str", s |-> s]

Body(kind, url, resolution) == [kind |-> kind, url |-> url, resolution |-> resolution]

NoData == Body("null", Absent, Absent)

UrlStrings == {<<>>, <<" ", " ">>, PrefixWww \o UrlQuery, <<" ">> \o PrefixShort \o <<"a", "\t">>, PrefixMobile \o UrlQuery, PrefixBare \o UrlQuery, UrlHttp \o UrlQuery, UrlShorts, UrlShortNoSlash, UrlUpper}

ResolutionStrings == {Res720, <<" ">> \o Res1080 \o <<" ">>, Res480}

AllBodies ==
    {NoData, Body("empty_object", Absent, Absent), Body("array", Absent, Absent)}
    \cup {Body("object", u, r) : u \in {Absent, Other} \cup {Str(s) : s \in UrlStrings}, r \in {Absent, Other, Str(<<" ">> \o Res720 \o <<" ">>)}}

PlainBodies == {Body("object", Str(PrefixWww \o UrlQuery), r) : r \in {Absent} \cup {Str(s) : s \in ResolutionStrings}}

\* data.get(key, default)
Get(member, default) == IF member.t = "absent" THEN Str(default) ELSE member

valid_domains == {PrefixWww, PrefixShort, PrefixMobile, PrefixBare}

\* download_video, lines 158-180: the response that ends the request, or
\* NoResponse when the body passes validation
Validate(data) ==
    IF data.kind \in {"null", "empty_object"}
    THEN Response(400, "No JSON data provided. Send JSON with 'url' and optional 'resolution' fields.")
    ELSE IF data.kind # "object" THEN ClassifyError(MsgNoAttrGet)
    ELSE IF Get(data.url, <<>>).t # "str" THEN ClassifyError(MsgNoAttrStrip)
    ELSE IF Get(data.resolution, Res1080).t # "str" THEN ClassifyError(MsgNoAttrStrip)
    ELSE LET url == Strip(Get(data.url, <<>>).s)
         IN  IF url = <<>> THEN Response(400, "No URL provided in request body")
             ELSE IF ~ \E domain \in valid_domains : StartsWith(url, domain)
             THEN Response(400, "Please provide a valid YouTube URL (youtube.com or youtu.be)")
             ELSE NoResponse

\* resolution = data.get("resolution", "1080p").strip()
ResolutionOf(data) == Strip(Get(data.resolution, Res1080).s)

(***************************************************************************)
(* Streams of a video (pytubefix Stream): kind is "progressive" (video     *)
(* and audio in one file), "video" (video only) or "audio" (audio only).   *)
(* NoStream is the None that StreamQuery.first() returns on no match.      *)
(***************************************************************************)
Stream(kind, resolution, subtype, abr) == [kind |-> kind, resolution |-> resolution, subtype |-> subtype, abr |-> abr]

NoStream == Stream("none", <<>>, "", <<>>)

StreamUniverse ==
    {Stream("progressive", Res720, "mp4", Abr128),
     Stream("video", Res720, "mp4", <<>>),
     Stream("video", Res1080, "mp4", <<>>),
     Stream("video", Res1440, "webm", <<>>),
     Stream("audio", <<>>, "mp4", Abr48),
     Stream("audio", <<>>, "mp4", Abr128),
     Stream("audio", <<>>, "webm", Abr70),
     Stream("audio", <<>>, "webm", Abr160)}

AllCatalogs == {c \in SUBSET StreamUniverse : Cardinality(c) <= MaxStreams}

PlainCatalogs ==
    {{Stream("progressive", Res720, "mp4", Abr128), Stream("video", Res1080, "mp4", <<>>), Stream("audio", <<>>, "mp4", Abr128)},
     {Stream("video", Res1080, "mp4", <<>>)}}

\* StreamQuery.first()
First(streams) == IF streams = {} THEN NoStream ELSE CHOOSE s \in streams : TRUE

\* StreamQuery.order_by('resolution').desc().first()
HighestResolution(streams) ==
    IF streams = {} THEN NoStream
    ELSE CHOOSE s \in streams : \A o \in streams : DigitsValue(o.resolution, 0) <= DigitsValue(s.resolution, 0)

\* StreamQuery.order_by('abr').desc().first()
HighestAbr(streams) ==
    IF streams = {} THEN NoStream
    ELSE CHOOSE s \in streams : \A o \in streams : DigitsValue(o.abr, 0) <= DigitsValue(s.abr, 0)

\* yt.streams.filter(res=resolution, progressive=True).first()
SelectProgressive(catalog, resolution) == First({s \in catalog : s.kind = "progressive" /\ s.resolution = resolution})

\* mutant: the fallback forgets the mp4 filter
SelectVideo_AnyFormat(catalog, resolution) ==
    LET exact == First({s \in catalog : s.kind = "video" /\ s.subtype = "mp4" /\ s.resolution = resolution})
    IN  IF exact # NoStream THEN exact
        ELSE HighestResolution({s \in catalog : s.kind = "video"})

\* the video-only stream: exact resolution in mp4, else the best mp4
SelectVideo(catalog, resolution) ==
    LET exact == First({s \in catalog : s.kind = "video" /\ s.subtype = "mp4" /\ s.resolution = resolution})
    IN  IF exact # NoStream THEN exact
        ELSE HighestResolution({s \in catalog : s.kind = "video" /\ s.subtype = "mp4"})

\* the audio-only stream: best mp4, else best of any format
SelectAudio(catalog) ==
    LET mp4 == HighestAbr({s \in catalog : s.kind = "audio" /\ s.subtype = "mp4"})
    IN  IF mp4 # NoStream THEN mp4
        ELSE HighestAbr({s \in catalog : s.kind = "audio"})

(***************************************************************************)
(* File system.  fs maps each existing path to [kind, mtime, size, by]:    *)
(* by is the request (thread and ordinal) that wrote the file, "env" for   *)
(* what the server found at start.                                         *)
(***************************************************************************)
Meta(kind, mtime, size, by) == [kind |-> kind, mtime |-> mtime, size |-> size, by |-> by]

\* a path as the program holds it: absolute, or relative to a working directory
Abs(parts) == [abs |-> TRUE, parts |-> parts]
Rel(parts) == [abs |-> FALSE, parts |-> parts]

\* the server's working directory; every path of fs lies below it
ServerCwd == <<>>

Resolve(cwd, path) == IF path.abs THEN path.parts ELSE cwd \o path.parts

\* os.path.exists
Exists(f, parts) == parts \in DOMAIN f

\* os.path.isfile
IsFile(f, parts) == parts \in DOMAIN f /\ f[parts].kind = "file"

IsDir(f, parts) == parts = <<>> \/ (parts \in DOMAIN f /\ f[parts].kind = "dir")

\* open(path, "wb") ... close(): creates or overwrites; the directory must exist
WriteFile(f, parts, meta) ==
    IF parts # <<>> /\ IsDir(f, SubSeq(parts, 1, Len(parts) - 1)) /\ ~ IsDir(f, parts)
    THEN [q \in DOMAIN f \cup {parts} |-> IF q = parts THEN meta ELSE f[q]]
    ELSE f

\* os.remove of every path of the set
RemoveAll(f, paths) == [q \in DOMAIN f \ paths |-> f[q]]

\* os.listdir(DOWNLOAD_FOLDER) joined to DOWNLOAD_FOLDER
Listing(f) == {q \in DOMAIN f : Len(q) = Len(DOWNLOAD_FOLDER) + 1 /\ SubSeq(q, 1, Len(DOWNLOAD_FOLDER)) = DOWNLOAD_FOLDER}

\* mutant: a file is old from max_age_seconds on
CleanupTargets_Inclusive(f, current_time) == {q \in DOMAIN f : Len(q) = 2 /\ q[1] = <<"downloads">> /\ f[q].kind = "file" /\ current_time - f[q].mtime >= max_age_seconds}

\* cleanup_old_files: the files os.remove is called on
CleanupTargets(f, current_time) == {q \in Listing(f) : IsFile(f, q) /\ current_time - f[q].mtime > max_age_seconds}

\* cleanup_old_files(max_age_hours=1); failing: the files whose os.remove raises
cleanup_old_files(f, current_time, failing) == RemoveAll(f, CleanupTargets(f, current_time) \ failing)

(***************************************************************************)
(* Inputs of the environment, by scope.  Every specification runs the same *)
(* handlers; its scope says along which dimension the inputs are drawn     *)
(* widely: "service" request bodies, titles and exception messages,        *)
(* "select" the stream catalogs, "cleanup" the clock and the removal       *)
(* failures, "threaded" two requests in flight at once, "backoff" the      *)
(* durations of the sleeps of get_youtube_object, "upscale" the input of   *)
(* the upscaler script.                                                    *)
(***************************************************************************)
Phrases == {PhBot, PhUnavailable, PhTimeout, PhConnection, PhAgeRestricted, PhFailed}

\* messages of 1..n phrases joined by ": "
RECURSIVE MessagesOf(_)
MessagesOf(n) ==
    IF n <= 1 THEN Phrases
    ELSE MessagesOf(n - 1) \cup {m \o <<":", " ">> \o ph : m \in MessagesOf(n - 1), ph \in Phrases}

AllMessages == MessagesOf(MaxWords)

\* messages of the exceptions yt.streams raises
Messages == IF scope = "service" THEN AllMessages ELSE {PhFailed}

\* messages of the exceptions YouTube(...) raises
AttemptMessages ==
    IF scope = "service" THEN Phrases
    ELSE IF scope = "backoff" THEN {Ph429, PhFailed}
    ELSE {PhFailed}

MergeBody == Body("object", Str(PrefixWww \o UrlQuery), Absent)

ProgressiveBody == Body("object", Str(PrefixWww \o UrlQuery), Str(Res720))

Bodies ==
    IF scope = "service" THEN AllBodies
    ELSE IF scope = "select" THEN PlainBodies
    ELSE IF scope \in {"threaded", "backoff"} THEN {MergeBody}
    ELSE {NoData, ProgressiveBody}

Catalogs ==
    IF scope = "select" THEN AllCatalogs
    ELSE IF scope = "cleanup" THEN {{Stream("progressive", Res720, "mp4", Abr128)}}
    ELSE PlainCatalogs

\* yt.title as the library yields it; <<>> is the empty title
Titles == IF scope = "service" THEN {TitleRaw, TitlePunct, <<>>} ELSE {TitleRaw}

ActiveThreads == IF scope \in {"threaded", "backoff"} THEN Threads ELSE {"t1"}

\* "threaded": one request per thread; "cleanup": MaxPosts requests, one
\* after the other
PostLimit == IF scope \in {"threaded", "backoff"} THEN Cardinality(Threads) ELSE IF scope = "cleanup" THEN MaxPosts ELSE 1

TickLimit == MaxTicks

\* random.uniform(lo, hi), in whole seconds: both ends of the interval
\* where the sleeps are compared, the lower end elsewhere
Uniform(lo, hi) == IF scope = "backoff" THEN {lo, hi} ELSE {lo}

\* the sets of files on which os.remove may raise
FailSets(candidates) == IF scope \in {"threaded", "cleanup"} THEN SUBSET candidates ELSE {{}}

\* the seconds one Tick may add
TickSteps == IF scope = "cleanup" THEN {1, max_age_seconds} ELSE {1}

(***************************************************************************)
(* The frame of one download_video call: its locals, its position (pc),    *)
(* and what it did: calls (the client of each YouTube(...) attempt),       *)
(* outcomes (how each attempt ended), last_error (the message of the       *)
(* exception the latest attempt raised), downloads (the stream of each          *)
(* Stream.download call), did (the sleeps and processes it ran), ffmpeg    *)
(* (how the merge ended), rm_failed (an os.remove of its raised).          *)
(***************************************************************************)
Idle ==
    [pc |-> "idle", id |-> 0, data |-> NoData, resolution |-> <<>>, attempt |-> 0, calls |-> <<>>,
     outcomes |-> <<>>, last_error |-> <<>>, sleeps |-> <<>>,
     title |-> <<>>, catalog |-> {}, video_stream |-> NoStream, audio_stream |-> NoStream,
     timestamp |-> 0, branch |-> "none", downloads |-> <<>>, did |-> {}, ffmpeg |-> "none",
     rm_failed |-> FALSE, resp |-> NoResponse]

\* f"{safe_title}_{resolution}_{timestamp}.mp4"
Filename(r) == clean_filename(r.title) \o <<"_">> \o r.resolution \o <<"_", ToString(r.timestamp)>> \o Mp4Suffix

\* f"video_temp_{timestamp}.mp4"
VideoTemp(r) == VideoTempPrefix \o <<ToString(r.timestamp)>> \o Mp4Suffix

\* f"audio_temp_{timestamp}.mp4"
AudioTemp(r) == AudioTempPrefix \o <<ToString(r.timestamp)>> \o Mp4Suffix

\* Stream.download(output_path=DOWNLOAD_FOLDER, filename=name) returns the
\* absolute path of the file: the working directory joined to both
DownloadPath(name) == Abs(ServerCwd \o DOWNLOAD_FOLDER \o <<name>>)

\* os.path.join(DOWNLOAD_FOLDER, filename)
JoinFolder(name) == Rel(DOWNLOAD_FOLDER \o <<name>>)

\* the success response of download_video
Success(message, output_path) ==
    [status |-> 200, message |-> message, error_type |-> "none",
     download_url |-> output_path.parts[Len(output_path.parts)], exc |-> <<>>]

\* lines 359-382: verify the final file and answer
Finish(f, message, output_path) ==
    IF ~ Exists(f, Resolve(ServerCwd, output_path))
    THEN Response(500, "Download completed but output file not found")
    ELSE Success(message, output_path)

Done(r, resp) == [r EXCEPT !.pc = "done", !.resp = resp]

(***************************************************************************)
(* POST / : download_video, one action per blocking operation.             *)
(***************************************************************************)
\* lines 152-182: cleanup_old_files(), then parse and validate the body
PostReceive(t) ==
    /\ t \in ActiveThreads
    /\ rq[t].pc \in {"idle", "done"}
    /\ posts < PostLimit
    /\ scope \in {"threaded", "backoff"} => rq[t].pc = "idle"
    /\ \E data \in Bodies, failing \in FailSets(CleanupTargets(fs, now)) :
          /\ fs' = cleanup_old_files(fs, now, failing)
          /\ cleaned' = [removed |-> CleanupTargets(fs, now) \ failing, failed |-> failing, at |-> now]
          /\ rq' = [rq EXCEPT ![t] =
                IF Validate(data) # NoResponse
                THEN Done([Idle EXCEPT !.id = posts + 1, !.data = data], Validate(data))
                ELSE [Idle EXCEPT !.pc = "delay", !.id = posts + 1, !.data = data, !.resolution = ResolutionOf(data)]]
    /\ posts' = posts + 1
    /\ UNCHANGED <<scope, upscaler, now, ticks, served>>

\* lines 184-187: time.sleep(random.uniform(3, 8))
InitialDelay(t) ==
    /\ rq[t].pc = "delay"
    /\ rq' = [rq EXCEPT ![t] = [@ EXCEPT !.pc = "get", !.did = @ \cup {"initial_delay"}]]
    /\ UNCHANGED <<scope, upscaler, now, ticks, posts, fs, cleaned, served>>

\* get_youtube_object: the client configuration of each attempt
ClientOf(attempt) == IF attempt = 0 THEN "po_token+WEB" ELSE IF attempt = 1 THEN "WEB" ELSE "default"

\* mutant: the loop counts one attempt too many before it re-raises
IsLastAttempt_OffByOne(attempt) == attempt = max_retries

\* get_youtube_object: whether the exception of this attempt is re-raised
IsLastAttempt(attempt) == attempt = max_retries - 1

\* one time.sleep(seconds) of get_youtube_object, made in loop pass attempt
Sleep(kind, attempt, seconds) == [kind |-> kind, attempt |-> attempt, seconds |-> seconds]

\* lines 38-42 and 54: the sleeps of a pass before its YouTube(...) call:
\* from the second pass on, random.uniform(3, 8) * 2 ** attempt; in the
\* else branch (neither pass 0 nor pass 1), random.uniform(1, 3)
BeforeCall(attempt, jitter, extra) ==
    (IF attempt > 0 THEN <<Sleep("backoff", attempt, jitter * 2 ^ attempt)>> ELSE <<>>)
    \o (IF attempt \notin {0, 1} THEN <<Sleep("extra", attempt, extra)>> ELSE <<>>)

\* line 63: any(keyword in error_str ...) on the lower-cased message
RateLimited(error_msg) == AnyIn(Lower(error_msg), {Kw429, KwTooMany, KwRateLimit, KwBot})

\* mutant: the wait is made after the final attempt as well
AfterFailure_EveryAttempt(attempt, error_msg, wait_time) ==
    IF RateLimited(error_msg) THEN <<Sleep("rate_limit", attempt, wait_time)>> ELSE <<>>

\* lines 62-67: the sleep of a pass after its call raised
AfterFailure(attempt, error_msg, wait_time) ==
    IF RateLimited(error_msg) /\ attempt < max_retries - 1
    THEN <<Sleep("rate_limit", attempt, wait_time)>>
    ELSE <<>>

\* get_youtube_object: one pass of the loop body; the YouTube(...) call
\* returns (ok) or raises an exception with message msg
Attempt(t) ==
    /\ rq[t].pc = "get"
    /\ rq[t].attempt < max_retries
    /\ \E jitter \in Uniform(3, 8), extra \in Uniform(1, 3) :
          LET r == [rq[t] EXCEPT !.calls = Append(@, ClientOf(rq[t].attempt)), !.did = @ \cup {"get_youtube_object"},
                                 !.sleeps = @ \o BeforeCall(rq[t].attempt, jitter, extra)]
          IN  \/ rq' = [rq EXCEPT ![t] = [r EXCEPT !.pc = "streams", !.outcomes = Append(@, "returned"), !.last_error = <<>>]]
              \/ \E msg \in AttemptMessages, wait_time \in Uniform(10, 20) :
                    rq' = [rq EXCEPT ![t] =
                        LET e == [r EXCEPT !.outcomes = Append(@, "raised"), !.last_error = msg,
                                           !.sleeps = @ \o AfterFailure(r.attempt, msg, wait_time)]
                        IN  IF IsLastAttempt(e.attempt) THEN Done(e, ClassifyError(msg))
                            ELSE [e EXCEPT !.attempt = @ + 1]]
    /\ UNCHANGED <<scope, upscaler, now, ticks, posts, fs, cleaned, served>>

\* yt.title or "Unknown Video"; raised: reading the metadata raised
TitleOf(title, raised) == IF raised \/ title = <<>> THEN UnknownVideo ELSE title

\* lines 211-273: the streams chosen from the catalog and the branch taken
Choose(r, catalog, current_time) ==
    IF SelectProgressive(catalog, r.resolution) # NoStream
    THEN [r EXCEPT !.pc = "download_progressive", !.branch = "progressive", !.catalog = catalog,
                   !.video_stream = SelectProgressive(catalog, r.resolution), !.timestamp = current_time]
    ELSE IF SelectVideo(catalog, r.resolution) = NoStream \/ SelectAudio(catalog) = NoStream
    THEN Done([r EXCEPT !.branch = "no_streams", !.catalog = catalog, !.video_stream = SelectVideo(catalog, r.resolution), !.audio_stream = SelectAudio(catalog)],
              Response(400, "No suitable streams found"))
    ELSE [r EXCEPT !.pc = "download_video", !.branch = "merge", !.catalog = catalog,
                   !.video_stream = SelectVideo(catalog, r.resolution),
                   !.audio_stream = SelectAudio(catalog), !.timestamp = current_time]

\* lines 197-273: metadata, stream selection, the file names.  yt.streams
\* returns the catalog of the video or raises
FetchStreams(t) ==
    /\ rq[t].pc = "streams"
    /\ \E title \in Titles, raised \in BOOLEAN :
          LET r == [rq[t] EXCEPT !.title = TitleOf(title, raised)]
          IN  \/ \E catalog \in Catalogs : rq' = [rq EXCEPT ![t] = Choose(r, catalog, now)]
              \/ \E msg \in Messages : rq' = [rq EXCEPT ![t] = Done(r, ClassifyError(msg))]
    /\ UNCHANGED <<scope, upscaler, now, ticks, posts, fs, cleaned, served>>

\* what a Stream.download call leaves at its path: the file when it
\* returned, a partial file or nothing when it raised
Downloaded(f, path, ok, partial, by, current_time) ==
    IF ok \/ partial THEN WriteFile(f, Resolve(ServerCwd, path), Meta("file", current_time, 1, by)) ELSE f

\* lines 215-230 and 359-382: the progressive download and the answer
DownloadProgressive(t) ==
    /\ rq[t].pc = "download_progressive"
    /\ \E ok \in BOOLEAN, partial \in BOOLEAN :
          LET r == [rq[t] EXCEPT !.downloads = Append(@, rq[t].video_stream)]
              output_path == DownloadPath(Filename(r))
              f1 == Downloaded(fs, output_path, ok, partial, r.id, now)
          IN  /\ fs' = f1
              /\ rq' = [rq EXCEPT ![t] =
                    IF ok THEN Done(r, Finish(f1, "Downloaded ... successfully.", output_path))
                    ELSE Done(r, Response(500, "Download failed: ..."))]
    /\ UNCHANGED <<scope, upscaler, now, ticks, posts, cleaned, served>>

\* the two temporary files as the except clause names them (lines 291)
TempFiles(r) == {Resolve(ServerCwd, JoinFolder(VideoTemp(r))), Resolve(ServerCwd, JoinFolder(AudioTemp(r)))}

\* mutant: the finally clause names the files relative to the directory
\* ffmpeg ran in
TempPaths_InFfmpegCwd(r) == {Resolve(<<>> \o DOWNLOAD_FOLDER, JoinFolder(VideoTemp(r))), Resolve(<<>> \o DOWNLOAD_FOLDER, JoinFolder(AudioTemp(r)))}

\* the two temporary files as the finally clause names them (line 348)
TempPaths(r) == {Resolve(ServerCwd, DownloadPath(VideoTemp(r))), Resolve(ServerCwd, DownloadPath(AudioTemp(r)))}

\* if os.path.exists(temp_file): os.remove(temp_file), for each; failing:
\* the files whose os.remove raises (the exception is swallowed)
RemoveTemps(f, temps, failing) == RemoveAll(f, {q \in temps : Exists(f, q)} \ failing)

\* lines 275-299: a stream download of the merge branch; on an exception
\* both temporary files are removed and the answer is 500
DownloadStream(t, pc, stream, name, next) ==
    /\ rq[t].pc = pc
    /\ \E ok \in BOOLEAN, partial \in BOOLEAN, failing \in FailSets(TempFiles(rq[t])) :
          LET r == [rq[t] EXCEPT !.downloads = Append(@, stream)]
              f1 == Downloaded(fs, DownloadPath(name), ok, partial, r.id, now)
          IN  IF ok
              THEN /\ fs' = f1
                   /\ rq' = [rq EXCEPT ![t] = [r EXCEPT !.pc = next]]
              ELSE /\ fs' = RemoveTemps(f1, TempFiles(r), failing)
                   /\ rq' = [rq EXCEPT ![t] =
                         Done([r EXCEPT !.rm_failed = (failing \cap DOMAIN f1 # {})],
                              Response(500, "Failed to download video streams: ..."))]
    /\ UNCHANGED <<scope, upscaler, now, ticks, posts, cleaned, served>>

DownloadVideo(t) == DownloadStream(t, "download_video", rq[t].video_stream, VideoTemp(rq[t]), "download_audio")

DownloadAudio(t) == DownloadStream(t, "download_audio", rq[t].audio_stream, AudioTemp(rq[t]), "ffmpeg")

(***************************************************************************)
(* The merge: subprocess.run(ffmpeg_cmd, timeout=600, cwd=DOWNLOAD_FOLDER). *)
(* The child resolves its relative arguments against its own working       *)
(* directory, DOWNLOAD_FOLDER.                                             *)
(***************************************************************************)
\* cwd=DOWNLOAD_FOLDER
FfmpegCwd == Resolve(ServerCwd, Rel(DOWNLOAD_FOLDER))

\* "-i", video_path, "-i", audio_path: the files ffmpeg reads
FfmpegInputs(r) == {Resolve(FfmpegCwd, DownloadPath(VideoTemp(r))), Resolve(FfmpegCwd, DownloadPath(AudioTemp(r)))}

\* output_path = os.path.join(DOWNLOAD_FOLDER, filename), the last argument:
\* the file ffmpeg writes
FfmpegOutput(r) == Resolve(FfmpegCwd, JoinFolder(Filename(r)))

\* ffmpeg can exit 0 only if it can read both inputs and create the output
CanMerge(f, r) ==
    /\ \A q \in FfmpegInputs(r) : IsFile(f, q)
    /\ IsDir(f, SubSeq(FfmpegOutput(r), 1, Len(FfmpegOutput(r)) - 1))
    /\ ~ IsDir(f, FfmpegOutput(r))

\* mutant: a failed merge answers with a status of its own and the link
MergeAnswer_Leaky(f, r, outcome) ==
    IF outcome = "exit0" THEN Finish(f, "Downloaded ... and merged successfully.", JoinFolder(Filename(r)))
    ELSE [Response(IF outcome = "timeout" THEN 504 ELSE 500, "Video processing failed.") EXCEPT !.download_url = Filename(r)]

\* lines 321-357: the answer of the merge branch after ffmpeg ended with
\* outcome and the finally clause left the file system f
MergeAnswer(f, r, outcome) ==
    IF outcome = "timeout"
    THEN Response(408, "Video processing timed out. The video might be too long or in a complex format.")
    ELSE IF outcome = "nonzero"
    THEN Response(500, "Video processing failed. The video format might not be supported.")
    ELSE IF outcome = "oserror" THEN ClassifyError(MsgNoFfmpeg)
    ELSE Finish(f, "Downloaded ... and merged successfully.", JoinFolder(Filename(r)))

\* lines 301-382: run ffmpeg, remove the temporary files (finally), answer.
\* outcome: exit code 0, a non-zero exit code, TimeoutExpired, or OSError
\* when the process cannot be started
RunFfmpeg(t) ==
    /\ rq[t].pc = "ffmpeg"
    /\ \E outcome \in {"exit0", "nonzero", "timeout", "oserror"}, failing \in FailSets(TempPaths(rq[t])) :
          /\ outcome = "exit0" => CanMerge(fs, rq[t])
          /\ LET r == [rq[t] EXCEPT !.did = @ \cup {"ffmpeg"}, !.ffmpeg = outcome,
                                    !.rm_failed = (failing \cap DOMAIN fs # {})]
                 f1 == IF outcome = "exit0" THEN WriteFile(fs, FfmpegOutput(r), Meta("file", now, 1, r.id)) ELSE fs
                 f2 == RemoveTemps(f1, TempPaths(r), failing)
             IN  /\ fs' = f2
                 /\ rq' = [rq EXCEPT ![t] = Done(r, MergeAnswer(f2, r, outcome))]
    /\ UNCHANGED <<scope, upscaler, now, ticks, posts, cleaned, served>>

\* time passes between requests: one second, or max_age_seconds at once
Tick ==
    /\ ticks < TickLimit
    /\ \A t \in Threads : rq[t].pc \in {"idle", "done"}
    /\ \E d \in TickSteps : now' = now + d
    /\ ticks' = ticks + 1
    /\ UNCHANGED <<scope, upscaler, posts, fs, rq, cleaned, served>>

(***************************************************************************)
(* GET /download/<filename> : serve_file.                                  *)
(***************************************************************************)
\* the file names requested: every name of up to MaxNameLen characters over
\* a letter, the dot and the two separators, and the names in the folder
NameChars == {"a", ".", "/", "\\"}

RECURSIVE NamesOf(_)
NamesOf(n) == IF n = 0 THEN {<<>>} ELSE NamesOf(n - 1) \cup {Append(m, c) : m \in NamesOf(n - 1), c \in NameChars}

ShortNames == NamesOf(MaxNameLen) \ {<<>>}

Filenames == ShortNames \cup {q[Len(q)] : q \in Listing(fs)}

\* mutant: the test for '..' is left out
InvalidFilename_NoDotDot(filename) == Contains(filename, <<"/">>) \/ Contains(filename, <<"\\">>)

\* line 438: '..' in filename or '/' in filename or '\\' in filename
InvalidFilename(filename) == Contains(filename, <<".", ".">>) \/ Contains(filename, <<"/">>) \/ Contains(filename, <<"\\">>)

\* filename.split("/")
RECURSIVE SplitName(_, _)
SplitName(s, cur) ==
    IF s = <<>> THEN <<cur>>
    ELSE IF Head(s) = "/" THEN <<cur>> \o SplitName(Tail(s), <<>>)
    ELSE SplitName(Tail(s), Append(cur, Head(s)))

\* the kernel's walk from base along the components: "" and "." stay, ".."
\* goes up; above the working directory the path holds the component ".."
RECURSIVE Walk(_, _)
Walk(base, comps) ==
    IF comps = <<>> THEN base
    ELSE IF Head(comps) \in {<<>>, <<".">>} THEN Walk(base, Tail(comps))
    ELSE IF Head(comps) = <<".", ".">>
         THEN IF base = <<>> \/ base[Len(base)] = <<".", ".">> THEN Walk(Append(base, <<".", ".">>), Tail(comps))
              ELSE Walk(SubSeq(base, 1, Len(base) - 1), Tail(comps))
    ELSE Walk(Append(base, Head(comps)), Tail(comps))

\* the file that os.path.join(DOWNLOAD_FOLDER, filename) names; an absolute
\* filename replaces the folder and lies outside the working directory
FilePath(filename) ==
    IF filename # <<>> /\ Head(filename) = "/" THEN << <<"/">> >> \o Walk(<<>>, SplitName(filename, <<>>))
    ELSE Walk(ServerCwd \o DOWNLOAD_FOLDER, SplitName(filename, <<>>))

\* send_from_directory(DOWNLOAD_FOLDER, filename): werkzeug raises NotFound
\* for a name that leaves the directory and for what is no regular file
CanSend(f, filename) ==
    /\ ~ Contains(filename, <<"\\">>)
    /\ Len(FilePath(filename)) > Len(DOWNLOAD_FOLDER)
    /\ SubSeq(FilePath(filename), 1, Len(DOWNLOAD_FOLDER)) = DOWNLOAD_FOLDER
    /\ IsFile(f, FilePath(filename))

Served(filename, status, message, sent, touched) == [filename |-> filename, status |-> status, message |-> message, sent |-> sent, touched |-> touched]

\* serve_file(filename): sent is the file sent (<<>>: none), touched the
\* paths handed to the file system
serve_file(f, filename) ==
    IF InvalidFilename(filename) THEN Served(filename, 400, "Invalid filename", <<>>, {})
    ELSE IF ~ Exists(f, FilePath(filename))
    THEN Served(filename, 404, "File not found. It may have been cleaned up due to storage limits.", <<>>, {FilePath(filename)})
    ELSE IF f[FilePath(filename)].size = 0
    THEN Served(filename, 500, "File is empty or corrupted", <<>>, {FilePath(filename)})
    ELSE IF ~ CanSend(f, filename)
    THEN Served(filename, 500, "Error accessing file", <<>>, {FilePath(filename)})
    ELSE Served(filename, 200, "", FilePath(filename), {FilePath(filename)})

ServeFile ==
    /\ \E filename \in Filenames : served' = serve_file(fs, filename)
    /\ UNCHANGED <<scope, upscaler, now, ticks, posts, fs, rq, cleaned>>

(***************************************************************************)
(* a.py : the upscaler script.  The input video is the sequence of what    *)
(* cap.read() yields: a frame, or a failed read; past its end every read   *)
(* fails.                                                                  *)
(***************************************************************************)
fourk_width == 3840

fourk_height == 2160

Frame(id, width, height) == [id |-> id, width |-> width, height |-> height]

\* cap.read() on the i-th frame of output_1080p.mp4: (ret, frame)
Read(ret, i) == [ret |-> ret, frame |-> Frame(i, 1920, 1080)]

RECURSIVE InputsOf(_)
InputsOf(n) ==
    IF n = 0 THEN {<<>>}
    ELSE InputsOf(n - 1) \cup {Append(inp, Read(ret, Len(inp) + 1)) : inp \in {x \in InputsOf(n - 1) : Len(x) = n - 1}, ret \in BOOLEAN}

Inputs == InputsOf(MaxFrames)

\* a file of the script: a video (its frames) with or without an audio track
NoFile == [exists |-> FALSE, frames |-> <<>>, audio |-> FALSE]

VideoFile(frames, audio) == [exists |-> TRUE, frames |-> frames, audio |-> audio]

\* cv2.resize(frame, (fourk_width, fourk_height), interpolation=cv2.INTER_CUBIC)
resize(frame, width, height) == [frame EXCEPT !.width = width, !.height = height]

\* the script before its first statement.  frame_count: what
\* cap.get(cv2.CAP_PROP_FRAME_COUNT) will yield; audio: whether the input has
\* an audio track; ffmpeg_installed: whether the ffmpeg executable is found;
\* temp_video: temp_4k_video.mp4, output: output_4k_final.mp4;
\* reads: the successful cap.read() calls so far
Script(input, frame_count, audio, ffmpeg_installed, temp_video) ==
    [pc |-> "start", input |-> input, frame_count |-> frame_count, audio |-> audio,
     ffmpeg_installed |-> ffmpeg_installed, total_frames |-> 0, frame_number |-> 0, reads |-> 0,
     temp_video |-> temp_video, output |-> NoFile, command |-> <<>>, returncode |-> -1, exc |-> ""]

\* the script on a machine where it is not run
NotRun == Script(<<>>, 0, FALSE, FALSE, NoFile)

\* the runs of the script: every input; a container that states its number
\* of frames or states none (0); a temporary file left by an earlier run
Scripts(sc) ==
    IF sc = "upscale"
    THEN UNION {{Script(input, frame_count, audio, ffmpeg_installed, temp_video) :
                    frame_count \in {0, Len(input)}, audio \in BOOLEAN, ffmpeg_installed \in BOOLEAN,
                    temp_video \in {NoFile, VideoFile(<<Frame(0, fourk_width, fourk_height)>>, FALSE)}} :
                input \in Inputs}
    ELSE {NotRun}

\* lines 11-27: VideoCapture, the properties, VideoWriter (which creates
\* temp_video_path anew)
OpenVideo ==
    /\ upscaler.pc = "start"
    /\ upscaler' = [upscaler EXCEPT !.pc = "loop", !.total_frames = upscaler.frame_count,
                                    !.frame_number = 0, !.temp_video = VideoFile(<<>>, FALSE)]
    /\ UNCHANGED <<scope, now, ticks, posts, fs, rq, cleaned, served>>

\* ffmpeg -i temp -i input -c:v copy -c:a aac -map 0:v:0 -map 1:a:0 -y output
command == <<"ffmpeg", "-i", "temp_4k_video.mp4", "-i", "output_1080p.mp4", "-c:v", "copy", "-c:a", "aac",
             "-map", "0:v:0", "-map", "1:a:0", "-y", "output_4k_final.mp4">>

\* whether ffmpeg finds the streams the command maps
CanMux(u) == u.temp_video.exists /\ u.temp_video.frames # <<>> /\ u.audio

\* lines 31-43: one pass of the while loop; on a failed read, lines 33-46:
\* break, cap.release(), out.release()
ReadFrame ==
    /\ upscaler.pc = "loop"
    /\ LET pos == upscaler.reads + 1
           ret == pos <= Len(upscaler.input) /\ upscaler.input[pos].ret
       IN  upscaler' =
             IF ~ ret THEN [upscaler EXCEPT !.pc = "merge"]
             ELSE LET written == [upscaler EXCEPT !.reads = pos, !.frame_number = @ + 1,
                                     !.temp_video.frames = Append(@, resize(upscaler.input[pos].frame, fourk_width, fourk_height))]
                  IN  IF written.total_frames = 0
                      THEN [written EXCEPT !.pc = "crashed", !.exc = "ZeroDivisionError"]
                      ELSE written
    /\ UNCHANGED <<scope, now, ticks, posts, fs, rq, cleaned, served>>

\* lines 49-68: subprocess.run(command) without check, then the removal of
\* temp_video_path
MergeAudio ==
    /\ upscaler.pc = "merge"
    /\ \/ /\ ~ upscaler.ffmpeg_installed
          /\ upscaler' = [upscaler EXCEPT !.pc = "crashed", !.exc = "FileNotFoundError"]
       \/ /\ upscaler.ffmpeg_installed
          /\ \E ok \in BOOLEAN :
                /\ ok => CanMux(upscaler)
                /\ upscaler' = [upscaler EXCEPT !.pc = "finished", !.command = command,
                                   !.returncode = IF ok THEN 0 ELSE 1,
                                   !.output = IF ok THEN VideoFile(upscaler.temp_video.frames, upscaler.audio) ELSE @,
                                   !.temp_video = NoFile]
    /\ UNCHANGED <<scope, now, ticks, posts, fs, rq, cleaned, served>>

(***************************************************************************)
(* Initial states.  os.makedirs(DOWNLOAD_FOLDER, exist_ok=True) has run.   *)
(***************************************************************************)
StartTime == max_age_seconds + 1

Entry(path, meta) == [path |-> path, meta |-> meta]

FsOf(entries) == [q \in {e.path : e \in entries} |-> (CHOOSE e \in entries : e.path = q).meta]

FolderEntry == Entry(DOWNLOAD_FOLDER, Meta("dir", 0, 1, 0))

\* a directory named like DOWNLOAD_FOLDER inside DOWNLOAD_FOLDER
NestedEntry == Entry(DOWNLOAD_FOLDER \o DOWNLOAD_FOLDER, Meta("dir", 0, 1, 0))

\* what an earlier run may have left: files of ages 3601 and 3600, a
\* directory, a file outside the folder
OldEntries ==
    {Entry(DOWNLOAD_FOLDER \o << <<"o">> >>, Meta("file", StartTime - max_age_seconds - 1, 1, 0)),
     Entry(DOWNLOAD_FOLDER \o << <<"e">> >>, Meta("file", StartTime - max_age_seconds, 1, 0)),
     Entry(DOWNLOAD_FOLDER \o << <<"d">> >>, Meta("dir", 0, 1, 0)),
     Entry(<< <<"y">> >>, Meta("file", 0, 1, 0))}

\* for GET /download: a file, an empty file and a directory in the folder,
\* a file in a directory of the folder, a file beside the folder
ServedEntries ==
    {Entry(DOWNLOAD_FOLDER \o << <<"a">> >>, Meta("file", 0, 1, 0)),
     Entry(DOWNLOAD_FOLDER \o << <<"a", "a">> >>, Meta("file", 0, 0, 0)),
     Entry(DOWNLOAD_FOLDER \o << <<"a", ".", "a">> >>, Meta("dir", 0, 1, 0)),
     Entry(DOWNLOAD_FOLDER \o << <<"a", ".", "a">>, <<"a">> >>, Meta("file", 0, 1, 0)),
     Entry(<< <<"a">> >>, Meta("file", 0, 1, 0)),
     Entry(DOWNLOAD_FOLDER \o <<Filename([Idle EXCEPT !.title = TitleRaw, !.resolution = Res720])>>, Meta("file", 0, 1, 0))}

InitialFs(sc) ==
    IF sc = "cleanup" THEN {FsOf({FolderEntry} \cup OldEntries)}
    ELSE IF sc \in {"threaded", "backoff"} THEN {FsOf({FolderEntry, NestedEntry})}
    ELSE IF sc = "serve" THEN {FsOf({FolderEntry} \cup ServedEntries)}
    ELSE {FsOf({FolderEntry}), FsOf({FolderEntry, NestedEntry})}

NoServed == [filename |-> <<>>, status |-> 0, message |-> "", sent |-> <<>>, touched |-> {}]

InitScope(sc) ==
    /\ scope = sc
    /\ now = StartTime
    /\ ticks = 0
    /\ posts = 0
    /\ fs \in InitialFs(sc)
    /\ rq = [t \in Threads |-> Idle]
    /\ cleaned = [removed |-> {}, failed |-> {}, at |-> 0]
    /\ served = NoServed
    /\ upscaler \in Scripts(sc)

Init == InitScope("service")

Next ==
    \/ \E t \in Threads : PostReceive(t)
    \/ \E t \in Threads : InitialDelay(t)
    \/ \E t \in Threads : Attempt(t)
    \/ \E t \in Threads : FetchStreams(t)
    \/ \E t \in Threads : DownloadProgressive(t)
    \/ \E t \in Threads : DownloadVideo(t)
    \/ \E t \in Threads : DownloadAudio(t)
    \/ \E t \in Threads : RunFfmpeg(t)

\* concurrent requests, within one second, for a video without a
\* progressive stream at the requested resolution
NextThreaded ==
    \/ \E t \in Threads : PostReceive(t)
    \/ \E t \in Threads : InitialDelay(t)
    \/ \E t \in Threads : Attempt(t)
    \/ \E t \in Threads : FetchStreams(t)
    \/ \E t \in Threads : DownloadVideo(t)
    \/ \E t \in Threads : DownloadAudio(t)
    \/ \E t \in Threads : RunFfmpeg(t)

\* requests for videos that have a progressive stream, while time passes
NextCleanup ==
    \/ \E t \in Threads : PostReceive(t)
    \/ \E t \in Threads : InitialDelay(t)
    \/ \E t \in Threads : Attempt(t)
    \/ \E t \in Threads : FetchStreams(t)
    \/ \E t \in Threads : DownloadProgressive(t)
    \/ Tick

\* two requests whose get_youtube_object calls fail and retry
NextBackoff ==
    \/ \E t \in Threads : PostReceive(t)
    \/ \E t \in Threads : InitialDelay(t)
    \/ \E t \in Threads : Attempt(t)

Spec == Init /\ [][Next]_vars

SpecSelect == InitScope("select") /\ [][Next]_vars

SpecThreaded == InitScope("threaded") /\ [][NextThreaded]_vars

SpecCleanup == InitScope("cleanup") /\ [][NextCleanup]_vars

SpecServe == InitScope("serve") /\ [][ServeFile]_vars

SpecBackoff == InitScope("backoff") /\ [][NextBackoff]_vars

\* one run of the upscaler script
NextUpscale == OpenVideo \/ ReadFrame \/ MergeAudio

SpecUpscale == InitScope("upscale") /\ [][NextUpscale]_vars

(***************************************************************************)
(* Properties.                                                             *)
(***************************************************************************)
\* one step of the handler of thread t after the body was accepted
HandlerStep(t) ==
    \/ InitialDelay(t)
    \/ Attempt(t)
    \/ FetchStreams(t)
    \/ DownloadProgressive(t)
    \/ DownloadVideo(t)
    \/ DownloadAudio(t)
    \/ RunFfmpeg(t)

\* the body is missing or empty, or its url is absent, blank after
\* stripping, or starts with none of the four accepted prefixes
C1_Rejectable(data) ==
    \/ data.kind \in {"null", "empty_object"}
    \/ /\ data.kind = "object"
       /\ \/ data.url.t = "absent"
          \/ /\ data.url.t = "str"
             /\ \/ Strip(data.url.s) = <<>>
                \/ \A prefix \in {PrefixWww, PrefixShort, PrefixMobile, PrefixBare} : ~ StartsWith(Strip(data.url.s), prefix)

\* C1: a POST whose body is missing or empty, or whose url is absent, blank
\* or without an accepted prefix, is answered 400 with a message, and the
\* request made no initial delay, no get_youtube_object call, no download
\* and no ffmpeg run.
C1_InvalidRequestIs400 ==
    \A t \in Threads :
        rq[t].pc = "done" /\ C1_Rejectable(rq[t].data)
        => /\ rq[t].resp.status = 400
           /\ rq[t].resp.message # ""
           /\ rq[t].did = {}
           /\ rq[t].calls = <<>>
           /\ rq[t].downloads = <<>>

\* C2: on the merge branch, when both downloads succeeded and ffmpeg exited
\* with code 0, the answer is the success response "... merged
\* successfully" whose download_url names the merged file, and that file is
\* in DOWNLOAD_FOLDER so that GET /download/<name> serves it.
C2_MergeSucceeds ==
    \A t \in Threads :
        rq[t].pc = "done" /\ rq[t].branch = "merge" /\ rq[t].ffmpeg = "exit0"
        => /\ rq[t].resp.status = 200
           /\ rq[t].resp.message = "Downloaded ... and merged successfully."
           /\ rq[t].resp.download_url = Filename(rq[t])
           /\ IsFile(fs, DOWNLOAD_FOLDER \o <<Filename(rq[t])>>)
           /\ serve_file(fs, Filename(rq[t])).status = 200

\* the clients in the order get_youtube_object tries them
C4_Order == <<"po_token+WEB", "WEB", "default">>

\* C4: get_youtube_object makes at most 3 attempts, in the order po_token
\* with WEB, WEB only, default; every attempt before the latest raised; once
\* an attempt returned no further attempt is made; after 3 raised attempts
\* the call has ended by re-raising the exception of the last one.
C4_RetryOrder ==
    \A t \in Threads :
        LET r == rq[t]
            n == Len(r.calls)
        IN  /\ n <= 3
            /\ r.calls = SubSeq(C4_Order, 1, n)
            /\ Len(r.outcomes) = n
            /\ \A i \in 1..(n - 1) : r.outcomes[i] = "raised"
            /\ r.pc = "get" => n < 3 /\ \A i \in 1..n : r.outcomes[i] = "raised"
            /\ r.pc \in {"streams", "download_progressive", "download_video", "download_audio", "ffmpeg"}
               => n >= 1 /\ r.outcomes[n] = "returned"
            /\ n = 3 /\ r.outcomes[3] = "raised"
               => r.pc = "done" /\ r.resp.exc = r.last_error /\ r.resp.exc # <<>> /\ r.resp.error_type # "none" /\ r.downloads = <<>>

\* C4 witness: three attempts were made and all three raised
C4_AllAttemptsFailed == \E t \in Threads : Len(rq[t].calls) = 3 /\ rq[t].outcomes[3] = "raised" /\ rq[t].pc = "done"

\* C5: every POST ends with a response that carries a message and a status
\* among 200, 400, 408, 429, 500, 503; a response other than 200 carries no
\* download_url; and no step leaves the handler without a continuation (no
\* exception escapes it).
C5_AlwaysAnswers ==
    \A t \in Threads :
        /\ rq[t].pc = "done"
           => /\ rq[t].resp.status \in {200, 400, 408, 429, 500, 503}
              /\ rq[t].resp.message # ""
              /\ rq[t].resp.status # 200 => rq[t].resp.download_url = <<>>
        /\ rq[t].pc \notin {"idle", "done"} => ENABLED HandlerStep(t)

\* C5 witness: requests ended by an exception of the library, by a failed
\* merge, and by success
C5_EndedByException == \E t \in Threads : rq[t].pc = "done" /\ rq[t].resp.status = 503 /\ rq[t].resp.exc # <<>>

\* C6: the outer handler classifies by the first matching rule on the
\* lower-cased message (rate_limited 429, video_unavailable 400, timeout
\* 408, network_error 503, age_restricted 400, unknown 500), and a message
\* containing 'age' and 'restricted' is reported as age_restricted.
C6_Classification ==
    \A t \in Threads :
        rq[t].pc = "done" /\ rq[t].resp.exc # <<>>
        => LET low == Lower(rq[t].resp.exc)
               rule1 == \E kw \in {KwBot, KwBlocked, Kw403, KwForbidden, Kw429, KwTooManyRequests} : Contains(low, kw)
               rule2 == \E kw \in {KwPrivate, KwUnavailable, KwDeleted, KwRemoved} : Contains(low, kw)
               rule3 == Contains(low, KwTimeout)
               rule4 == \E kw \in {KwNetwork, KwConnection, KwResolve} : Contains(low, kw)
               rule5 == Contains(low, KwAge) /\ Contains(low, KwRestricted)
               is(status, error_type) == rq[t].resp.status = status /\ rq[t].resp.error_type = error_type
           IN  /\ rule1 => is(429, "rate_limited")
               /\ ~ rule1 /\ rule2 => is(400, "video_unavailable")
               /\ ~ rule1 /\ ~ rule2 /\ rule3 => is(408, "timeout")
               /\ ~ rule1 /\ ~ rule2 /\ ~ rule3 /\ rule4 => is(503, "network_error")
               /\ ~ rule1 /\ ~ rule2 /\ ~ rule3 /\ ~ rule4 /\ rule5 => is(400, "age_restricted")
               /\ ~ rule1 /\ ~ rule2 /\ ~ rule3 /\ ~ rule4 /\ ~ rule5 => is(500, "unknown")
               /\ rule5 => rq[t].resp.error_type = "age_restricted"

\* C3: GET /download/<filename> answers a name containing '..', '/' or
\* '\' with 400 "Invalid filename" before any file system access; else 404
\* for a file that does not exist, else 500 for an empty one; it sends only
\* an existing non-empty regular file directly in DOWNLOAD_FOLDER, and it
\* hands no path outside DOWNLOAD_FOLDER to the file system (the name "."
\* is the folder itself).
C3_ServeStaysInFolder ==
    served.status # 0
    => LET name == served.filename
           bad == \/ \E i \in DOMAIN name : name[i] \in {"/", "\\"}
                  \/ \E i \in 1..(Len(name) - 1) : name[i] = "." /\ name[i + 1] = "."
           path == IF name = <<".">> THEN DOWNLOAD_FOLDER ELSE DOWNLOAD_FOLDER \o <<name>>
       IN  /\ bad => served.status = 400 /\ served.message = "Invalid filename" /\ served.touched = {} /\ served.sent = <<>>
           /\ ~ bad /\ path \notin DOMAIN fs => served.status = 404 /\ served.sent = <<>>
           /\ ~ bad /\ path \in DOMAIN fs /\ fs[path].size = 0 => served.status = 500 /\ served.sent = <<>>
           /\ ~ bad /\ path \in DOMAIN fs /\ fs[path].size > 0 /\ fs[path].kind = "file" => served.status = 200 /\ served.sent = path
           /\ served.sent # <<>> => ~ bad /\ Len(path) = 2 /\ served.sent = path /\ path \in DOMAIN fs /\ fs[path].kind = "file" /\ fs[path].size > 0
           /\ \A q \in served.touched : Len(q) \in {1, 2} /\ q[1] = <<"downloads">>

\* C3 witness: a name with '..' that names an existing file beside the
\* folder was refused
C3_TraversalRefused == served.status = 400 /\ served.filename = <<".", ".", "/", "a">> /\ << <<"a">> >> \in DOMAIN fs

\* C7: once a request that took the merge branch has returned, no temporary
\* file it wrote (video_temp_<ts>.mp4, audio_temp_<ts>.mp4) is left in
\* DOWNLOAD_FOLDER, whether a download failed, ffmpeg exited non-zero, timed
\* out or succeeded, provided no os.remove of the request raised.
C7_TempFilesGone ==
    \A t \in Threads :
        rq[t].pc = "done" /\ rq[t].branch = "merge" /\ ~ rq[t].rm_failed
        => \A name \in {VideoTemp(rq[t]), AudioTemp(rq[t])} :
              ~ (DOWNLOAD_FOLDER \o <<name>> \in DOMAIN fs /\ fs[DOWNLOAD_FOLDER \o <<name>>].by = rq[t].id)

\* C7 witness: a request downloaded both streams, ffmpeg ended, every
\* os.remove succeeded, and the other request is on the merge branch too
C7_MergeReturned ==
    \E t \in Threads, u \in Threads :
        /\ t # u /\ rq[u].branch = "merge"
        /\ rq[t].pc = "done" /\ rq[t].branch = "merge" /\ Len(rq[t].downloads) = 2
        /\ rq[t].ffmpeg = "timeout" /\ ~ rq[t].rm_failed

\* C8: any two requests that took the merge branch have different
\* video_temp names, different audio_temp names and different output names.
C8_UniqueNames ==
    \A t \in Threads, u \in Threads :
        t # u /\ rq[t].branch = "merge" /\ rq[u].branch = "merge"
        => /\ VideoTemp(rq[t]) # VideoTemp(rq[u])
           /\ AudioTemp(rq[t]) # AudioTemp(rq[u])
           /\ Filename(rq[t]) # Filename(rq[u])

C10_SelectionOrder ==
    \A t \in Threads :
        rq[t].branch # "none"
        => LET r == rq[t]
               prog == {s \in r.catalog : s.kind = "progressive" /\ s.resolution = r.resolution}
               exact == {s \in r.catalog : s.kind = "video" /\ s.subtype = "mp4" /\ s.resolution = r.resolution}
               video == {s \in r.catalog : s.kind = "video" /\ s.subtype = "mp4"}
               audio4 == {s \in r.catalog : s.kind = "audio" /\ s.subtype = "mp4"}
               audio == {s \in r.catalog : s.kind = "audio"}
               best(set, s) == s \in set /\ \A o \in set : DigitsValue(o.resolution, 0) <= DigitsValue(s.resolution, 0)
               loudest(set, s) == s \in set /\ \A o \in set : DigitsValue(o.abr, 0) <= DigitsValue(s.abr, 0)
           IN  /\ prog # {}
                  => /\ r.branch = "progressive" /\ r.video_stream \in prog
                     /\ r.downloads \in {<<>>, <<r.video_stream>>}
                     /\ "ffmpeg" \notin r.did
               /\ prog = {}
                  => /\ r.branch \in {"merge", "no_streams"}
                     /\ exact # {} => r.video_stream \in exact
                     /\ exact = {} /\ video # {} => best(video, r.video_stream)
                     /\ video = {} => r.video_stream = NoStream
                     /\ audio4 # {} => loudest(audio4, r.audio_stream)
                     /\ audio4 = {} /\ audio # {} => loudest(audio, r.audio_stream)
                     /\ audio = {} => r.audio_stream = NoStream
                     /\ video = {} \/ audio = {}
                        => r.branch = "no_streams" /\ r.pc = "done" /\ r.resp.status = 400 /\ r.downloads = <<>> /\ r.did \cap {"ffmpeg"} = {}
                     /\ video # {} /\ audio # {}
                        => r.branch = "merge" /\ r.downloads \in {<<>>, <<r.video_stream>>, <<r.video_stream, r.audio_stream>>}

\* C10 witness: without a progressive stream or an mp4 stream at the
\* requested resolution, the best mp4 video and a non-mp4 audio stream were
\* chosen and downloaded, and ffmpeg ran
C10_FallbackChosen ==
    \E t \in Threads :
        /\ rq[t].branch = "merge" /\ "ffmpeg" \in rq[t].did
        /\ rq[t].video_stream.resolution # rq[t].resolution
        /\ rq[t].audio_stream.subtype = "webm"
        /\ Len(rq[t].downloads) = 2

\* the sleeps of kind kind that request r made in loop pass k
C11_SleepsAt(r, kind, k) == {i \in 1..Len(r.sleeps) : r.sleeps[i].kind = kind /\ r.sleeps[i].attempt = k}

\* the seconds request r slept between the failure of pass k - 1 and the
\* YouTube(...) call of pass k
RECURSIVE C11_Sum(_, _)
C11_Sum(r, idx) ==
    IF idx = {} THEN 0
    ELSE LET i == CHOOSE i \in idx : TRUE IN r.sleeps[i].seconds + C11_Sum(r, idx \ {i})

C11_Wait(r, k) ==
    C11_Sum(r, C11_SleepsAt(r, "rate_limit", k - 1) \cup C11_SleepsAt(r, "backoff", k) \cup C11_SleepsAt(r, "extra", k))

\* the sleeps of one request, as far as its get_youtube_object call has got:
\* none before the first attempt; before retry k one backoff sleep of
\* 3 * 2^k to 8 * 2^k seconds; after a failed attempt that is not the last
\* one wait of 10 to 20 seconds if and only if the lower-cased message holds
\* 429, too many, rate limit or bot; nothing after the last attempt failed.
C11_Sleeps(r) ==
    LET n == Len(r.calls)
        m == Len(r.sleeps)
        limited == \E kw \in {Kw429, KwTooMany, KwRateLimit, KwBot} : Contains(Lower(r.last_error), kw)
    IN  /\ \A i \in 1..m : r.sleeps[i].attempt \in 0..(n - 1)
        /\ \A i \in 1..(m - 1) : r.sleeps[i].attempt <= r.sleeps[i + 1].attempt
        /\ C11_SleepsAt(r, "backoff", 0) = {} /\ C11_SleepsAt(r, "extra", 0) = {}
        /\ \A k \in 1..(n - 1) :
              /\ Cardinality(C11_SleepsAt(r, "backoff", k)) = 1
              /\ \A i \in C11_SleepsAt(r, "backoff", k) :
                    /\ r.sleeps[i].seconds \in (3 * 2 ^ k)..(8 * 2 ^ k)
                    /\ \A j \in 1..(i - 1) : r.sleeps[j].attempt < k
        /\ n >= 1 /\ r.outcomes[n] = "raised"
           => IF limited /\ n < 3
              THEN /\ Cardinality(C11_SleepsAt(r, "rate_limit", n - 1)) = 1
                   /\ r.sleeps[m].kind = "rate_limit" /\ r.sleeps[m].attempt = n - 1
                   /\ r.sleeps[m].seconds \in 10..20
              ELSE C11_SleepsAt(r, "rate_limit", n - 1) = {}
        /\ n >= 1 /\ r.outcomes[n] = "returned" => C11_SleepsAt(r, "rate_limit", n - 1) = {}
        /\ C11_SleepsAt(r, "rate_limit", 2) = {}

RECURSIVE C12_Readable(_)
C12_Readable(input) ==
    IF input = <<>> \/ ~ Head(input).ret THEN <<>>
    ELSE <<Head(input).frame>> \o C12_Readable(Tail(input))

\* C12: the temporary video holds one 3840x2160 frame for each frame read
\* so far, in input order; the loop ends at the first failed read and not
\* before; the script then runs ffmpeg with the video of the temporary file
\* and the audio of the input, whose output holds exactly these when ffmpeg
\* succeeds; once the script has ended the temporary file does not exist.
C12_UpscalePipeline ==
    LET u == upscaler
        readable == C12_Readable(u.input)
        upscaled == [i \in 1..u.reads |-> Frame(readable[i].id, 3840, 2160)]
    IN  /\ u.reads <= Len(readable)
        /\ u.pc \in {"loop", "merge", "crashed"} => u.temp_video.exists /\ u.temp_video.frames = upscaled
        /\ u.pc \in {"merge", "finished", "crashed"}
           => /\ u.reads = Len(readable)
              /\ u.pc # "merge" => /\ u.command # <<>>
                                   /\ u.command[3] = "temp_4k_video.mp4" /\ u.command[11] = "0:v:0"
                                   /\ u.command[5] = "output_1080p.mp4" /\ u.command[13] = "1:a:0"
                                   /\ u.returncode = 0 => u.output = VideoFile(upscaled, TRUE)
                                   /\ ~ u.temp_video.exists

====
